---- MODULE Spec2Model ----
(***************************************************************************)
(* Lazy score expressions (rime/util/score_array.py): the expression tree  *)
(* LazyScoreExpression, the low-rank leaf LowRankDataFrame, the batch-size *)
(* heuristic get_batch_size and the batched aggregation score_op.          *)
(*                                                                         *)
(* Numbers are IEEE 754 binary64 floats, computed exactly and rounded to  *)
(* nearest, ties to even, as numpy and Python compute them.                *)
(***************************************************************************)
EXTENDS Integers, Sequences, FiniteSets

---------------------------------------------------------------------------
(* Bounds of the model *)
MaxRows == 3
MaxCols == 2
MaxOps == 2
ExprMaxOps == 4
MaxBatchRows == 8
MaxBatchCols == 2
AggMaxRows == 3
AggMaxCols == 1

---------------------------------------------------------------------------
(* Floats: IEEE 754 binary64, computed exactly.  A finite float is         *)
(* s * m * 2^e with sign s (0 for zero), m an odd natural below 2^53 and e *)
(* an integer; every operation computes the exact result and rounds it to  *)
(* the nearest float, ties to even: a result of 2^1024 or more is an       *)
(* infinity, and no float has a bit below 2^-1074 (the subnormals), so a   *)
(* smaller result is rounded onto that grid, down to zero.  -0.0 is not    *)
(* told from 0.0.                                                          *)

(* naturals of any size: little-endian sequences of limbs below LimbBase,  *)
(* no leading zero limb; <<>> is 0                                         *)
LimbBits == 14
LimbBase == 16384
Precision == 53

Abs(n) == IF n < 0 THEN -n ELSE n
Rest(a) == IF a = <<>> THEN <<>> ELSE Tail(a)
Limb(a, i) == IF i <= Len(a) THEN a[i] ELSE 0

RECURSIVE BStrip(_)
BStrip(a) ==
    IF a = <<>> THEN a
    ELSE IF a[Len(a)] = 0 THEN BStrip(SubSeq(a, 1, Len(a) - 1)) ELSE a

RECURSIVE BFromNat(_)
BFromNat(n) == IF n = 0 THEN <<>> ELSE <<n % LimbBase>> \o BFromNat(n \div LimbBase)

RECURSIVE BToNat(_)
BToNat(a) == IF a = <<>> THEN 0 ELSE a[1] + LimbBase * BToNat(Tail(a))

RECURSIVE BAddC(_, _, _)
BAddC(a, b, c) ==
    IF b = <<>> /\ c = 0 THEN a
    ELSE IF a = <<>> /\ b = <<>> THEN <<c>>
    ELSE LET s == Limb(a, 1) + Limb(b, 1) + c
         IN  <<s % LimbBase>> \o BAddC(Rest(a), Rest(b), s \div LimbBase)
BAdd(a, b) == BAddC(a, b, 0)

(* a - b for a >= b *)
RECURSIVE BSubC(_, _, _)
BSubC(a, b, c) ==
    IF a = <<>> \/ (b = <<>> /\ c = 0) THEN a
    ELSE LET d == a[1] - Limb(b, 1) - c
         IN  IF d < 0 THEN <<d + LimbBase>> \o BSubC(Tail(a), Rest(b), 1)
             ELSE <<d>> \o BSubC(Tail(a), Rest(b), 0)
BSub(a, b) == BStrip(BSubC(a, b, 0))

(* -1, 0 or 1 as a < b, a = b or a > b *)
RECURSIVE BCmp(_, _)
BCmp(a, b) ==
    IF Len(a) # Len(b) THEN (IF Len(a) < Len(b) THEN -1 ELSE 1)
    ELSE IF a = <<>> THEN 0
    ELSE IF a[Len(a)] # b[Len(b)] THEN (IF a[Len(a)] < b[Len(b)] THEN -1 ELSE 1)
    ELSE BCmp(SubSeq(a, 1, Len(a) - 1), SubSeq(b, 1, Len(b) - 1))

RECURSIVE BMulSmallC(_, _, _)
BMulSmallC(a, d, c) ==
    IF a = <<>> THEN (IF c = 0 THEN <<>> ELSE <<c>>)
    ELSE LET s == a[1] * d + c
         IN  <<s % LimbBase>> \o BMulSmallC(Tail(a), d, s \div LimbBase)

RECURSIVE BMul(_, _)
BMul(a, b) ==
    IF a = <<>> \/ b = <<>> THEN <<>>
    ELSE BStrip(BAdd(BMulSmallC(a, b[1], 0),
                     IF Tail(b) = <<>> THEN <<>> ELSE <<0>> \o BMul(a, Tail(b))))

(* a * 2^k and floor(a / 2^k) *)
BShl(a, k) ==
    IF a = <<>> THEN <<>>
    ELSE [i \in 1..(k \div LimbBits) |-> 0] \o BMulSmallC(a, 2^(k % LimbBits), 0)
BShr(a, k) ==
    LET q == k \div LimbBits
        r == k % LimbBits
        b == IF q >= Len(a) THEN <<>> ELSE SubSeq(a, q + 1, Len(a))
    IN  BStrip([i \in 1..Len(b) |->
                  (b[i] \div 2^r) + (Limb(b, i + 1) % 2^r) * 2^(LimbBits - r)])

RECURSIVE IntBitLen(_)
IntBitLen(n) == IF n = 0 THEN 0 ELSE 1 + IntBitLen(n \div 2)
BBitLen(a) == IF a = <<>> THEN 0 ELSE LimbBits * (Len(a) - 1) + IntBitLen(a[Len(a)])

(* bit i of a, the lowest being bit 0; whether every bit below k is 0 *)
BBit(a, i) == (Limb(a, i \div LimbBits + 1) \div 2^(i % LimbBits)) % 2
BLowZero(a, k) ==
    /\ \A i \in 1..Len(a) : i <= k \div LimbBits => a[i] = 0
    /\ Limb(a, k \div LimbBits + 1) % 2^(k % LimbBits) = 0

RECURSIVE IntTrailingZeros(_)
IntTrailingZeros(n) == IF n % 2 = 1 THEN 0 ELSE 1 + IntTrailingZeros(n \div 2)
RECURSIVE BTrailingZeros(_)
BTrailingZeros(a) ==
    IF a[1] = 0 THEN LimbBits + BTrailingZeros(Tail(a)) ELSE IntTrailingZeros(a[1])

(* the largest digit q of lo..hi with q * d <= n *)
RECURSIVE BDigit(_, _, _, _)
BDigit(n, d, lo, hi) ==
    IF lo = hi THEN lo
    ELSE LET mid == (lo + hi + 1) \div 2
         IN  IF BCmp(BStrip(BMulSmallC(d, mid, 0)), n) <= 0 THEN BDigit(n, d, mid, hi)
             ELSE BDigit(n, d, lo, mid - 1)

(* quotient and remainder of the limbs i and above of n by d, d not 0:    *)
(* long division, a limb at a time                                         *)
RECURSIVE BDivMod(_, _, _)
BDivMod(n, d, i) ==
    IF i > Len(n) THEN [q |-> <<>>, r |-> <<>>]
    ELSE LET p == BDivMod(n, d, i + 1)
             r2 == BStrip(<<n[i]>> \o p.r)
             digit == BDigit(r2, d, 0, LimbBase - 1)
         IN  [q |-> BStrip(<<digit>> \o p.q),
              r |-> BSub(r2, BStrip(BMulSmallC(d, digit, 0)))]

Min(a, b) == IF a <= b THEN a ELSE b
Max(a, b) == IF a >= b THEN a ELSE b

NaN == [k |-> "nan", s |-> 0, m |-> <<>>, e |-> 0]
PInf == [k |-> "pinf", s |-> 1, m |-> <<>>, e |-> 0]
NInf == [k |-> "ninf", s |-> -1, m |-> <<>>, e |-> 0]
Zero == [k |-> "fin", s |-> 0, m |-> <<>>, e |-> 0]

(* the float s * m * 2^e, m of at most 53 bits and e at least -1074: an   *)
(* infinity from 2^1024 on                                                 *)
Fin(s, m, e) ==
    IF m = <<>> THEN Zero
    ELSE IF e + BBitLen(m) > 1024 THEN (IF s > 0 THEN PInf ELSE NInf)
    ELSE LET tz == BTrailingZeros(m)
         IN  [k |-> "fin", s |-> s, m |-> BShr(m, tz), e |-> e + tz]

(* the float nearest to s * m * 2^e, ties to even: the bits below the 53  *)
(* highest, and those below 2^-1074, are rounded away                      *)
Round(s, m, e) ==
    LET sh == Max(BBitLen(m) - Precision, -1074 - e)
    IN  IF sh <= 0 THEN Fin(s, m, e)
        ELSE LET q == BShr(m, sh)
                 up == BBit(m, sh - 1) = 1 /\ (~BLowZero(m, sh - 1) \/ BBit(m, sh) = 1)
             IN  Fin(s, IF up THEN BAddC(q, <<>>, 1) ELSE q, e + sh)

(* the float of a Python int *)
Num(n) == Fin(IF n < 0 THEN -1 ELSE 1, BFromNat(Abs(n)), 0)

VNeg(x) ==
    CASE x.k = "nan" -> NaN
      [] x.k = "pinf" -> NInf
      [] x.k = "ninf" -> PInf
      [] x.k = "fin" -> [x EXCEPT !.s = -x.s]

(* the position above the highest bit of a finite float that is not zero *)
Top(x) == x.e + BBitLen(x.m)

(* -1, 0 or 1 as |x| < |y|, |x| = |y| or |x| > |y|, neither being zero *)
CmpAbs(x, y) ==
    IF Top(x) # Top(y) THEN (IF Top(x) < Top(y) THEN -1 ELSE 1)
    ELSE BCmp(BShl(x.m, x.e - Min(x.e, y.e)), BShl(y.m, y.e - Min(x.e, y.e)))

(* x < y as IEEE decides it: FALSE as soon as one side is NaN *)
Lt(x, y) ==
    CASE x.k = "nan" \/ y.k = "nan" -> FALSE
      [] x.k = "ninf" -> y.k # "ninf"
      [] x.k = "pinf" -> FALSE
      [] y.k = "pinf" -> TRUE
      [] y.k = "ninf" -> FALSE
      [] x.s # y.s -> x.s < y.s
      [] x.s = 0 -> FALSE
      [] OTHER -> x.s * CmpAbs(x, y) < 0

(* the sum of two finite floats: exact, then rounded; an operand below a  *)
(* quarter of the other's last place leaves the other unchanged            *)
FAdd(x, y) ==
    IF x.s = 0 THEN y
    ELSE IF y.s = 0 THEN x
    ELSE IF Top(x) - Top(y) > Precision + 2 THEN x
    ELSE IF Top(y) - Top(x) > Precision + 2 THEN y
    ELSE LET lo == Min(x.e, y.e)
             a == BShl(x.m, x.e - lo)
             b == BShl(y.m, y.e - lo)
         IN  IF x.s = y.s THEN Round(x.s, BAdd(a, b), lo)
             ELSE IF BCmp(a, b) = 0 THEN Zero
             ELSE IF BCmp(a, b) > 0 THEN Round(x.s, BSub(a, b), lo)
             ELSE Round(y.s, BSub(b, a), lo)

VAdd(x, y) ==
    CASE x.k = "nan" \/ y.k = "nan" -> NaN
      [] x.k = "fin" /\ y.k = "fin" -> FAdd(x, y)
      [] x.k = "fin" -> y
      [] y.k = "fin" -> x
      [] x.k = y.k -> x
      [] OTHER -> NaN

VMul(x, y) ==
    CASE x.k = "nan" \/ y.k = "nan" -> NaN
      [] x.k = "fin" /\ y.k = "fin" ->
            IF x.s = 0 \/ y.s = 0 THEN Zero
            ELSE Round(x.s * y.s, BMul(x.m, y.m), x.e + y.e)
      [] x.s = 0 \/ y.s = 0 -> NaN
      [] x.s = y.s -> PInf
      [] OTHER -> NInf

(* the quotient of two finite floats, y not zero: 55 bits or more of the  *)
(* quotient and one more bit that tells whether a remainder is left        *)
FDiv(x, y) ==
    IF x.s = 0 THEN Zero
    ELSE LET sh == Max(0, Precision + 2 + BBitLen(y.m) - BBitLen(x.m))
             d == BDivMod(BShl(x.m, sh), y.m, 1)
         IN  IF d.r = <<>> THEN Round(x.s * y.s, d.q, x.e - y.e - sh)
             ELSE Round(x.s * y.s, BAddC(BShl(d.q, 1), <<>>, 1), x.e - y.e - sh - 1)

(* numpy's x / y: a division by zero gives an infinity or NaN *)
VDiv(x, y) ==
    CASE x.k = "nan" \/ y.k = "nan" -> NaN
      [] x.k = "fin" /\ y.k = "fin" ->
            IF y.s # 0 THEN FDiv(x, y)
            ELSE IF x.s = 0 THEN NaN
            ELSE IF x.s > 0 THEN PInf ELSE NInf
      [] x.k = "fin" -> Zero
      [] y.k = "fin" -> IF x.s * (IF y.s < 0 THEN -1 ELSE 1) > 0 THEN PInf ELSE NInf
      [] OTHER -> NaN

IsInt(x) == x.k = "fin" /\ x.e >= 0
IntOf(x) == x.s * BToNat(BShl(x.m, x.e))

(* int(x) and np.ceil(x) of a finite float *)
Trunc(x) == IF x.e >= 0 THEN IntOf(x) ELSE x.s * BToNat(BShr(x.m, -x.e))
Ceil(x) == IF x.e >= 0 \/ x.s < 0 THEN Trunc(x) ELSE Trunc(x) + 1

(* np.exp(z) for the integers z of -10..10, as float64 *)
ExpTable(z) ==
    CASE z = -10 -> [k |-> "fin", s |-> 1, m |-> <<15515, 5521, 6043, 1523>>, e |-> -67]
      [] z = -9 -> [k |-> "fin", s |-> 1, m |-> <<10797, 2636, 10129, 517>>, e |-> -64]
      [] z = -8 -> [k |-> "fin", s |-> 1, m |-> <<10157, 4160, 528, 1407>>, e |-> -64]
      [] z = -7 -> [k |-> "fin", s |-> 1, m |-> <<10639, 12434, 5817, 1912>>, e |-> -63]
      [] z = -6 -> [k |-> "fin", s |-> 1, m |-> <<10859, 8743, 12943, 649>>, e |-> -60]
      [] z = -5 -> [k |-> "fin", s |-> 1, m |-> <<10683, 26, 2559, 883>>, e |-> -59]
      [] z = -4 -> [k |-> "fin", s |-> 1, m |-> <<3901, 14369, 1366, 300>>, e |-> -56]
      [] z = -3 -> [k |-> "fin", s |-> 1, m |-> <<12463, 13114, 6924, 1631>>, e |-> -57]
      [] z = -2 -> [k |-> "fin", s |-> 1, m |-> <<8307, 9151, 2730, 277>>, e |-> -53]
      [] z = -1 -> [k |-> "fin", s |-> 1, m |-> <<7655, 6934, 5804, 188>>, e |-> -51]
      [] z = 0 -> [k |-> "fin", s |-> 1, m |-> <<1>>, e |-> 0]
      [] z = 1 -> [k |-> "fin", s |-> 1, m |-> <<5993, 11345, 12456, 1391>>, e |-> -51]
      [] z = 2 -> [k |-> "fin", s |-> 1, m |-> <<11991, 12713, 13093, 945>>, e |-> -49]
      [] z = 3 -> [k |-> "fin", s |-> 1, m |-> <<6275, 16095, 12077, 642>>, e |-> -47]
      [] z = 4 -> [k |-> "fin", s |-> 1, m |-> <<10059, 5907, 6432, 218>>, e |-> -44]
      [] z = 5 -> [k |-> "fin", s |-> 1, m |-> <<13199, 9664, 5001, 1187>>, e |-> -45]
      [] z = 6 -> [k |-> "fin", s |-> 1, m |-> <<143, 6723, 11717, 1613>>, e |-> -44]
      [] z = 7 -> [k |-> "fin", s |-> 1, m |-> <<11989, 13661, 5186, 548>>, e |-> -41]
      [] z = 8 -> [k |-> "fin", s |-> 1, m |-> <<1591, 14990, 3923, 745>>, e |-> -40]
      [] z = 9 -> [k |-> "fin", s |-> 1, m |-> <<1985, 14478, 14507, 1012>>, e |-> -39]
      [] z = 10 -> [k |-> "fin", s |-> 1, m |-> <<10283, 14834, 334, 43>>, e |-> -33]

(* np.exp of an integer logit or of an infinity / NaN *)
VExp(z) ==
    CASE z.k = "nan" -> NaN
      [] z.k = "pinf" -> PInf
      [] z.k = "ninf" -> Zero
      [] z.k = "fin" -> ExpTable(IntOf(z))

(* 1./(1+np.exp(-z)); for the integers of -10..10 the quotient is worked  *)
(* out once and kept                                                       *)
SigmoidTable == [z \in -10..10 |-> VDiv(Num(1), VAdd(Num(1), ExpTable(-z)))]
VSigmoid(z) ==
    IF z.k = "fin" /\ IsInt(z) THEN SigmoidTable[IntOf(z)]
    ELSE VDiv(Num(1), VAdd(Num(1), VExp(VNeg(z))))

(* np.log of a fill value: of 0, of 1, of a negative number, of an        *)
(* infinity or NaN                                                         *)
VLog(v) ==
    CASE v.k = "nan" -> NaN
      [] v.k = "pinf" -> PInf
      [] v.k = "ninf" -> NaN
      [] v.s = 0 -> NInf
      [] v.s < 0 -> NaN
      [] v = Num(1) -> Zero

(* ndarray.clip(lo, hi): minimum(maximum(x, lo), hi); np.maximum and      *)
(* np.minimum give NaN as soon as one operand is NaN                       *)
VClip(x, lo, hi) ==
    IF x.k = "nan" \/ lo.k = "nan" \/ hi.k = "nan" THEN NaN
    ELSE LET a == IF Lt(x, lo) THEN lo ELSE x
         IN  IF Lt(hi, a) THEN hi ELSE a

---------------------------------------------------------------------------
(* 2-d arrays: [r |-> rows, c |-> columns, d |-> sequence of rows] *)

Err(name) == [kind |-> "error", err |-> name]
IsErr(x) == "err" \in DOMAIN x
IsMat(x) == "d" \in DOMAIN x

Mat(r, c, d) == [r |-> r, c |-> c, d |-> d]
MatFill(r, c, v) == Mat(r, c, [i \in 1..r |-> [j \in 1..c |-> v]])

(* Python's index: a negative index counts from the end; 0-based *)
PyIndex(n, i) == IF i < 0 THEN n + i ELSE i

(* ndarray.T *)
MT(m) == Mat(m.c, m.r, [j \in 1..m.c |-> [i \in 1..m.r |-> m.d[i][j]]])

(* ndarray[key], key a sequence of row indices *)
MTake(m, key) == Mat(Len(key), m.c, [t \in 1..Len(key) |-> m.d[PyIndex(m.r, key[t]) + 1]])

RECURSIVE ConcatRows(_)
ConcatRows(ms) == IF ms = <<>> THEN <<>> ELSE Head(ms).d \o ConcatRows(Tail(ms))

RECURSIVE SumRows(_)
SumRows(ms) == IF ms = <<>> THEN 0 ELSE Head(ms).r + SumRows(Tail(ms))

(* np.vstack *)
MVStack(ms) ==
    IF ms = <<>> \/ \E i \in 1..Len(ms) : ms[i].c # ms[1].c THEN Err("ValueError")
    ELSE Mat(SumRows(ms), ms[1].c, ConcatRows(ms))

(* np.pad(m, ((0, pr), (0, pc)), constant_values=v) *)
MPad(m, pr, pc, v) ==
    Mat(m.r + pr, m.c + pc,
        [i \in 1..(m.r + pr) |-> [j \in 1..(m.c + pc) |->
            IF i <= m.r /\ j <= m.c THEN m.d[i][j] ELSE v]])

RECURSIVE Dot(_, _)
Dot(a, b) ==
    IF a = <<>> THEN Num(0)
    ELSE IF Len(a) = 1 THEN VMul(a[1], b[1])
    ELSE VAdd(Dot(SubSeq(a, 1, Len(a) - 1), SubSeq(b, 1, Len(b) - 1)),
              VMul(a[Len(a)], b[Len(b)]))

(* a @ b.T *)
MatMulT(a, b) == Mat(a.r, b.r, [i \in 1..a.r |-> [j \in 1..b.r |-> Dot(a.d[i], b.d[j])]])

MMap(F(_), m) == Mat(m.r, m.c, [i \in 1..m.r |-> [j \in 1..m.c |-> F(m.d[i][j])]])

BDim(a, b) == IF a = b THEN a ELSE IF a = 1 THEN b ELSE IF b = 1 THEN a ELSE -1
BIdx(n, i) == IF n = 1 THEN 1 ELSE i

(* a numpy binary ufunc on evaluated children: arrays broadcast against   *)
(* scalars and against arrays of the same shape (or of dimension 1)       *)
NpBinary(F(_, _), x, y) ==
    IF IsErr(x) THEN x
    ELSE IF IsErr(y) THEN y
    ELSE IF ~IsMat(x) /\ ~IsMat(y) THEN F(x, y)
    ELSE IF ~IsMat(y) THEN MMap(LAMBDA a : F(a, y), x)
    ELSE IF ~IsMat(x) THEN MMap(LAMBDA b : F(x, b), y)
    ELSE IF BDim(x.r, y.r) < 0 \/ BDim(x.c, y.c) < 0 THEN Err("ValueError")
    ELSE Mat(BDim(x.r, y.r), BDim(x.c, y.c),
             [i \in 1..BDim(x.r, y.r) |-> [j \in 1..BDim(x.c, y.c) |->
                 F(x.d[BIdx(x.r, i)][BIdx(x.c, j)], y.d[BIdx(y.r, i)][BIdx(y.c, j)])]])

RECURSIVE SeqMaxNaN(_)
SeqMaxNaN(s) ==
    IF Len(s) = 1 THEN s[1]
    ELSE LET m == SeqMaxNaN(Tail(s))
         IN  IF s[1].k = "nan" \/ m.k = "nan" THEN NaN
             ELSE IF Lt(m, s[1]) THEN s[1] ELSE m

RECURSIVE SeqMinNaN(_)
SeqMinNaN(s) ==
    IF Len(s) = 1 THEN s[1]
    ELSE LET m == SeqMinNaN(Tail(s))
         IN  IF s[1].k = "nan" \/ m.k = "nan" THEN NaN
             ELSE IF Lt(s[1], m) THEN s[1] ELSE m

RECURSIVE Flatten(_)
Flatten(rows) == IF rows = <<>> THEN <<>> ELSE Head(rows) \o Flatten(Tail(rows))

(* ndarray.max() / ndarray.min(): NaN propagates, an empty array raises *)
NpReduce(op, val) ==
    IF IsErr(val) THEN val
    ELSE IF ~IsMat(val) THEN Err("AttributeError")
    ELSE IF val.r = 0 \/ val.c = 0 THEN Err("ValueError")
    ELSE IF op = "max" THEN SeqMaxNaN(Flatten(val.d))
    ELSE SeqMinNaN(Flatten(val.d))

(* builtins.max(out, new) / builtins.min(out, new): the first argument is *)
(* kept unless the second compares strictly greater (smaller)             *)
BuiltinsOp(op, out, new) ==
    IF op = "max" THEN (IF Lt(out, new) THEN new ELSE out)
    ELSE (IF Lt(new, out) THEN new ELSE out)

---------------------------------------------------------------------------
(* Operands.  kind "scalar": a Python number; "dense": a 2-d ndarray;      *)
(* "sparse": a scipy.sparse matrix, nz the sequence of its stored <<row,   *)
(* column, value>> entries; "lowrank": a LowRankDataFrame; "expr": a       *)
(* LazyScoreExpression node; "big": a matrix known by its shape alone      *)
(* (of = "lowrank", "dense" or "sparse"), its entries not enumerated.      *)
(* index_t / columns_t tell whether a label container takes a list of      *)
(* positions as a subscript ("array": ndarray or pandas Index) or is a     *)
(* plain Python list ("list").                                             *)

Scalar(v) == [kind |-> "scalar", v |-> v]
Dense(m) == [kind |-> "dense", m |-> m]
Sparse(r, c, nz) == [kind |-> "sparse", r |-> r, c |-> c, nz |-> nz]
Big(of, shape, index, columns) ==
    [kind |-> "big", of |-> of, shape |-> shape, index |-> index, columns |-> columns]

Op(name, lo, hi) == [name |-> name, lo |-> lo, hi |-> hi]
operator_add == Op("add", Num(0), Num(0))
operator_mul == Op("mul", Num(0), Num(0))

isscalar(c) == c.kind = "scalar"

(* LowRankDataFrame.shape, LazyScoreExpression.shape, ndarray.shape *)
LowRankDataFrame_shape(x) == <<x.ind_logits.r, x.col_logits.r>>

ShapeOf(x) ==
    CASE x.kind = "lowrank" -> LowRankDataFrame_shape(x)
      [] x.kind = "expr" -> x.shape
      [] x.kind = "big" -> x.shape
      [] x.kind = "dense" -> <<x.m.r, x.m.c>>
      [] x.kind = "sparse" -> <<x.r, x.c>>

(* the operands that carry .index and .columns *)
HasLabels(x) == x.kind \in {"lowrank", "expr"} \/ (x.kind = "big" /\ x.of = "lowrank")

FirstErr(seq) == seq[CHOOSE i \in 1..Len(seq) : IsErr(seq[i]) /\ \A j \in 1..(i - 1) : ~IsErr(seq[j])]
AnyErr(seq) == \E i \in 1..Len(seq) : IsErr(seq[i])

(* the dataclass constructor followed by __post_init__ *)
LowRankDataFrame(ind_logits, col_logits, index, columns, act, index_t, columns_t) ==
    IF IsErr(ind_logits) THEN ind_logits
    ELSE IF IsErr(col_logits) THEN col_logits
    ELSE IF ind_logits.c # col_logits.c THEN Err("AssertionError")
    ELSE IF ind_logits.r # Len(index) THEN Err("AssertionError")
    ELSE IF col_logits.r # Len(columns) THEN Err("AssertionError")
    ELSE IF act \notin {"exp", "sigmoid"} THEN Err("AssertionError")
    ELSE [kind |-> "lowrank", ind_logits |-> ind_logits, col_logits |-> col_logits,
          index |-> index, columns |-> columns, act |-> act,
          index_t |-> index_t, columns_t |-> columns_t]

(* LazyScoreExpression.__init__: no check of the children's shapes *)
LazyScoreExpression(op, children) ==
    IF AnyErr(children) THEN FirstErr(children)
    ELSE IF children = <<>> THEN Err("IndexError")
    ELSE IF ~HasLabels(children[1]) THEN Err("AttributeError")
    ELSE [kind |-> "expr", op |-> op, children |-> children,
          index |-> children[1].index, columns |-> children[1].columns,
          shape |-> ShapeOf(children[1])]

(* scipy.sparse: toarray, transpose, csr[key], vstack.  nz lists the      *)
(* stored entries in storage order, and one position may be stored more   *)
(* than once; toarray starts from zeros and adds every stored entry to    *)
(* its position in that order, the other three keep the order in which    *)
(* the entries of one position are stored                                  *)
RECURSIVE SumEntries(_)
SumEntries(nz) ==
    IF nz = <<>> THEN Num(0)
    ELSE VAdd(SumEntries(SubSeq(nz, 1, Len(nz) - 1)), nz[Len(nz)][3])
SpToArray(x) ==
    Mat(x.r, x.c, [i \in 1..x.r |-> [j \in 1..x.c |->
        LET at(t) == t[1] = i /\ t[2] = j
        IN  SumEntries(SelectSeq(x.nz, at))]])
SpT(x) == Sparse(x.c, x.r, [n \in 1..Len(x.nz) |-> <<x.nz[n][2], x.nz[n][1], x.nz[n][3]>>])
RECURSIVE SpVStackFrom(_, _)
SpVStackFrom(D, off) ==
    IF D = <<>> THEN <<>>
    ELSE [n \in 1..Len(Head(D).nz) |-> <<Head(D).nz[n][1] + off, Head(D).nz[n][2], Head(D).nz[n][3]>>]
         \o SpVStackFrom(Tail(D), off + Head(D).r)
SpTake(x, key) ==
    LET row(n) == LET at(t) == t[1] = PyIndex(x.r, key[n]) + 1
                      sel == SelectSeq(x.nz, at)
                  IN  Sparse(1, x.c, [k \in 1..Len(sel) |-> <<1, sel[k][2], sel[k][3]>>])
    IN  Sparse(Len(key), x.c, SpVStackFrom([n \in 1..Len(key) |-> row(n)], 0))
RECURSIVE SpRows(_)
SpRows(D) == IF D = <<>> THEN 0 ELSE Head(D).r + SpRows(Tail(D))
SpVStack(D) ==
    IF D = <<>> \/ \E i \in 1..Len(D) : D[i].c # D[1].c THEN Err("ValueError")
    ELSE Sparse(SpRows(D), D[1].c, SpVStackFrom(D, 0))

(* the operator of a node applied to its evaluated children *)
ApplyOp(op, ch) ==
    CASE op.name = "add" ->
            IF Len(ch) # 2 THEN Err("TypeError") ELSE NpBinary(VAdd, ch[1], ch[2])
      [] op.name = "mul" ->
            IF Len(ch) # 2 THEN Err("TypeError") ELSE NpBinary(VMul, ch[1], ch[2])
      [] op.name = "clip" ->
            IF Len(ch) # 1 THEN Err("TypeError")
            ELSE IF ~IsMat(ch[1]) THEN Err("AttributeError")
            ELSE MMap(LAMBDA x : VClip(x, op.lo, op.hi), ch[1])

(* LowRankDataFrame.eval, device None *)
LowRankDataFrame_eval(x) ==
    LET z == MatMulT(x.ind_logits, x.col_logits)
    IN  IF x.act = "exp" THEN MMap(VExp, z) ELSE MMap(VSigmoid, z)

RECURSIVE _auto_eval(_), LazyScoreExpression_eval(_)

_auto_eval(c) ==
    CASE c.kind = "lowrank" -> LowRankDataFrame_eval(c)
      [] c.kind = "expr" -> LazyScoreExpression_eval(c)
      [] c.kind = "scalar" -> c.v
      [] c.kind = "sparse" -> SpToArray(c)
      [] c.kind = "dense" -> c.m

LazyScoreExpression_eval(x) ==
    LET children == [i \in 1..Len(x.children) |-> _auto_eval(x.children[i])]
    IN  IF AnyErr(children) THEN FirstErr(children) ELSE ApplyOp(x.op, children)

(* x.eval() of an expression of either class *)
eval(x) == IF x.kind = "lowrank" THEN LowRankDataFrame_eval(x) ELSE LazyScoreExpression_eval(x)

(* np.allclose(a, b) on two shapes: |a - b| <= atol + rtol * |b| in every  *)
(* dimension, with the defaults rtol = 1e-5 and atol = 1e-8                *)
Rtol == [k |-> "fin", s |-> 1, m |-> <<10481, 9101, 2904, 1342>>, e |-> -69]
Atol == [k |-> "fin", s |-> 1, m |-> <<1565, 1121, 3191, 687>>, e |-> -78]
isclose(a, b) == ~Lt(VAdd(Atol, VMul(Rtol, Num(Abs(b)))), Num(Abs(a - b)))
allclose(s, t) == isclose(s[1], t[1]) /\ isclose(s[2], t[2])

_check_index_columns(self, other) ==
    isscalar(other) \/ allclose(ShapeOf(self), ShapeOf(other))

LazyScoreExpression_add(self, other) ==
    IF ~_check_index_columns(self, other) THEN Err("AssertionError")
    ELSE LazyScoreExpression(operator_add, <<self, other>>)

(* __mul__ building its node with operator.add *)
LazyScoreExpression_mul_with_add(self, other) ==
    IF ~_check_index_columns(self, other) THEN Err("AssertionError")
    ELSE LazyScoreExpression(operator_add, <<self, other>>)

LazyScoreExpression_mul(self, other) ==
    IF ~_check_index_columns(self, other) THEN Err("AssertionError")
    ELSE LazyScoreExpression(operator_mul, <<self, other>>)

LazyScoreExpression_clip(self, min, max) ==
    LazyScoreExpression(Op("clip", min, max), <<self>>)

(* Python's a + b and a * b: the left operand's method; the class defines  *)
(* no __radd__ / __rmul__, so a number on the left raises TypeError        *)
binary_add(a, b) ==
    IF HasLabels(a) THEN LazyScoreExpression_add(a, b) ELSE Err("TypeError")
binary_mul(a, b) ==
    IF HasLabels(a) THEN LazyScoreExpression_mul(a, b) ELSE Err("TypeError")

---------------------------------------------------------------------------
(* Transpose, row slice, collate, reindex *)

(* LowRankDataFrame.T with self.columns passed for both label sequences *)
LowRankDataFrame_T_columns_twice(x) ==
    LowRankDataFrame(x.col_logits, x.ind_logits, x.columns, x.columns, x.act,
                     x.columns_t, x.columns_t)

(* LowRankDataFrame.T *)
LowRankDataFrame_T(x) ==
    LowRankDataFrame(x.col_logits, x.ind_logits, x.columns, x.index, x.act,
                     x.columns_t, x.index_t)

RECURSIVE AttrT(_), LazyScoreExpression_T(_)

(* c.T of an operand *)
AttrT(c) ==
    CASE c.kind = "lowrank" -> LowRankDataFrame_T(c)
      [] c.kind = "expr" -> LazyScoreExpression_T(c)
      [] c.kind = "dense" -> Dense(MT(c.m))
      [] c.kind = "sparse" -> SpT(c)
      [] c.kind = "big" -> Big(c.of, <<c.shape[2], c.shape[1]>>, c.columns, c.index)

LazyScoreExpression_T(x) ==
    LazyScoreExpression(x.op,
        [i \in 1..Len(x.children) |->
            IF isscalar(x.children[i]) THEN x.children[i] ELSE AttrT(x.children[i])])

(* a key is one row position or a sequence of row positions, 0-based;    *)
(* "if np.isscalar(key): key = [key]"                                    *)
IntKey(i) == [scalar |-> TRUE, i |-> i, list |-> <<>>]
SeqKey(list) == [scalar |-> FALSE, i |-> 0, list |-> list]
ListKey(key) == IF key.scalar THEN <<key.i>> ELSE key.list

SeqTake(seq, key) == [t \in 1..Len(key) |-> seq[PyIndex(Len(seq), key[t]) + 1]]

(* every position of key is a row of an array of n rows *)
InRange(n, key) == \A t \in 1..Len(key) : -n <= key[t] /\ key[t] < n

(* LowRankDataFrame.__getitem__: self.ind_logits[key] raises IndexError    *)
(* for a row that is not there, then self.index[key] raises TypeError when *)
(* the labels are a Python list, which takes no list key                   *)
LowRankDataFrame_getitem(x, key0) ==
    LET key == ListKey(key0)
    IN  IF ~InRange(x.ind_logits.r, key) THEN Err("IndexError")
        ELSE IF x.index_t = "list" THEN Err("TypeError")
        ELSE LowRankDataFrame(MTake(x.ind_logits, key), x.col_logits,
                              SeqTake(x.index, key), x.columns, x.act, "array", x.columns_t)

RECURSIVE _auto_getitem(_, _), LazyScoreExpression_getitem(_, _)

_auto_getitem(c, key) ==
    CASE c.kind = "scalar" -> c
      [] c.kind = "lowrank" -> LowRankDataFrame_getitem(c, SeqKey(key))
      [] c.kind = "expr" -> LazyScoreExpression_getitem(c, SeqKey(key))
      [] c.kind = "dense" ->
            IF ~InRange(c.m.r, key) THEN Err("IndexError") ELSE Dense(MTake(c.m, key))
      [] c.kind = "sparse" ->
            IF ~InRange(c.r, key) THEN Err("IndexError") ELSE SpTake(c, key)
      [] c.kind = "big" ->
            IF ~InRange(c.shape[1], key) THEN Err("IndexError")
            ELSE Big(c.of, <<Len(key), c.shape[2]>>, c.index \o <<"[key]">>, c.columns)

LazyScoreExpression_getitem(x, key0) ==
    LET key == ListKey(key0)
    IN  LazyScoreExpression(x.op,
            [i \in 1..Len(x.children) |-> _auto_getitem(x.children[i], key)])

getitem(x, key) ==
    IF x.kind = "lowrank" THEN LowRankDataFrame_getitem(x, key)
    ELSE IF x.kind = "big" THEN _auto_getitem(x, ListKey(key))
    ELSE LazyScoreExpression_getitem(x, key)

RECURSIVE ConcatIndex(_)
ConcatIndex(batch) == IF batch = <<>> THEN <<>> ELSE Head(batch).index \o ConcatIndex(Tail(batch))

(* LowRankDataFrame.collate_fn *)
LowRankDataFrame_collate_fn(batch) ==
    IF batch = <<>> THEN Err("IndexError")
    ELSE LowRankDataFrame(MVStack([b \in 1..Len(batch) |-> batch[b].ind_logits]),
                          batch[1].col_logits, ConcatIndex(batch), batch[1].columns,
                          batch[1].act, "list", batch[1].columns_t)

RECURSIVE BigRows(_)
BigRows(D) == IF D = <<>> THEN 0 ELSE Head(D).shape[1] + BigRows(Tail(D))

MinLen(batch) ==
    CHOOSE n \in {Len(batch[b].children) : b \in 1..Len(batch)} :
        \A b \in 1..Len(batch) : n <= Len(batch[b].children)

RECURSIVE _auto_collate(_, _), LazyScoreExpression_collate_fn(_)

_auto_collate(c, D) ==
    CASE c.kind = "lowrank" -> LowRankDataFrame_collate_fn(D)
      [] c.kind = "expr" -> LazyScoreExpression_collate_fn(D)
      [] c.kind = "scalar" -> D[1]
      [] c.kind = "big" -> Big(c.of, <<BigRows(D), c.shape[2]>>, ConcatIndex(D), c.columns)
      [] c.kind = "sparse" -> SpVStack(D)
      [] c.kind = "dense" ->
            LET m == MVStack([b \in 1..Len(D) |-> D[b].m])
            IN  IF IsErr(m) THEN m ELSE Dense(m)

LazyScoreExpression_collate_fn(batch) ==
    IF batch = <<>> THEN Err("IndexError")
    ELSE LET first == batch[1]
         IN  LazyScoreExpression(first.op,
                [i \in 1..MinLen(batch) |->
                    _auto_collate(first.children[i], [b \in 1..Len(batch) |-> batch[b].children[i]])])

collate_fn(S, batch) ==
    IF S.kind = "lowrank" THEN LowRankDataFrame_collate_fn(batch)
    ELSE IF S.kind = "big" THEN _auto_collate(S, batch)
    ELSE LazyScoreExpression_collate_fn(batch)

(* pd.Series(np.arange(len(self)), index=self.index).reindex(index,        *)
(* fill_value=-1).values: the 0-based position of each new label, -1 for a *)
(* label that self.index has not.  pandas looks no label up when the new   *)
(* labels equal self.index and returns the positions as they are; when it  *)
(* has to look labels up it refuses a self.index with duplicate labels     *)
Position(old, label) == (CHOOSE i \in 1..Len(old) : old[i] = label) - 1
new_ind(old, index) ==
    IF index = old THEN [t \in 1..Len(old) |-> t - 1]
    ELSE [t \in 1..Len(index) |->
            IF \E i \in 1..Len(old) : old[i] = index[t] THEN Position(old, index[t]) ELSE -1]
HasDuplicates(seq) == \E i, j \in 1..Len(seq) : i # j /\ seq[i] = seq[j]

(* the index argument of reindex: the labels and the container the caller *)
(* holds them in, a Python list ("list") or an ndarray / pandas Index      *)
(* ("array"); reindex stores the argument itself as the new index          *)
Labels(seq, t) == [seq |-> seq, t |-> t]

(* LowRankDataFrame.reindex, axis 0 *)
LowRankDataFrame_reindex0(x, index, fill_value) ==
    LET padded == MPad(x.ind_logits, 1, 1, Num(0))
        ind_logits == [padded EXCEPT !.d[padded.r][padded.c] = VLog(fill_value)]
        col_logits == MPad(x.col_logits, 0, 1, Num(1))
    IN  IF HasDuplicates(x.index) /\ index.seq # x.index THEN Err("ValueError")
        ELSE LowRankDataFrame(MTake(ind_logits, new_ind(x.index, index.seq)), col_logits,
                              index.seq, x.columns, x.act, index.t, x.columns_t)

(* LowRankDataFrame.reindex *)
LowRankDataFrame_reindex(x, index, axis, fill_value) ==
    IF axis = 1
    THEN LET r == LowRankDataFrame_reindex0(LowRankDataFrame_T(x), index, fill_value)
         IN  IF IsErr(r) THEN r ELSE LowRankDataFrame_T(r)
    ELSE LowRankDataFrame_reindex0(x, index, fill_value)

---------------------------------------------------------------------------
(* Batch size and the batch loader *)

(* total_memory without a CUDA device, 16e9, and the default frac, 0.1 *)
CpuMemory == Fin(1, BFromNat(1953125), 13)
DefaultFrac == [k |-> "fin", s |-> 1, m |-> <<3277, 13107, 3276, 819>>, e |-> -55]

(* a Python int, as a function's result that may also be an error *)
PyInt(n) == [kind |-> "int", n |-> n]

(* line 15 of get_batch_size, n_batches = int(n_users / max_batch_size)   *)
(* + 1: a Python int of any size, given by its sign and magnitude, or the *)
(* error the line raises.  Python raises ZeroDivisionError for a division *)
(* by zero, ValueError for int(nan) and OverflowError for int(inf).        *)
n_batches(n_users, max_batch_size) ==
    LET x == VDiv(Num(n_users), max_batch_size)
        int == IF x.e >= 0 THEN BShl(x.m, x.e) ELSE BShr(x.m, -x.e)
    IN  IF max_batch_size.k = "fin" /\ max_batch_size.s = 0 THEN Err("ZeroDivisionError")
        ELSE IF x.k = "nan" THEN Err("ValueError")
        ELSE IF x.k # "fin" THEN Err("OverflowError")
        ELSE IF x.s >= 0 \/ int = <<>> THEN [kind |-> "int", s |-> 1, m |-> BAddC(int, <<>>, 1)]
        ELSE IF int = <<1>> THEN [kind |-> "int", s |-> 0, m |-> <<>>]
        ELSE [kind |-> "int", s |-> -1, m |-> BSub(int, <<1>>)]

(* line 16 of get_batch_size, int(np.ceil(n_users / n_batches)).  The     *)
(* division of two Python ints raises ZeroDivisionError for n_batches 0   *)
(* and gives the float nearest to the quotient otherwise; when n_batches  *)
(* is the larger in magnitude that float lies between 0 and 1, or 0 and   *)
(* -1, so that its ceiling is 1, or 0                                      *)
CeilDiv(n_users, n) ==
    IF IsErr(n) THEN n
    ELSE IF n.s = 0 THEN Err("ZeroDivisionError")
    ELSE IF BCmp(n.m, BFromNat(n_users)) > 0 THEN PyInt(IF n.s > 0 /\ n_users > 0 THEN 1 ELSE 0)
    ELSE PyInt(Ceil(FDiv(Num(n_users), [k |-> "fin", s |-> n.s, m |-> n.m, e |-> 0])))

(* a batch size raised to at least one row *)
AtLeastOne(size) == IF IsErr(size) THEN size ELSE PyInt(Max(1, size.n))

(* get_batch_size with the result clamped to at least one row *)
get_batch_size_clamped(shape, frac, total_memory) ==
    IF shape[2] = 0 THEN Err("ZeroDivisionError")
    ELSE AtLeastOne(CeilDiv(shape[1],
            n_batches(shape[1], VMul(VDiv(VDiv(total_memory, Num(8)), Num(shape[2])), frac))))

(* get_batch_size(shape, frac) with n_users, n_items = shape:             *)
(* total_memory is the memory of CUDA device 0, or 16e9 when there is     *)
(* none; max_batch_size = total_memory / 8 / n_items * frac raises        *)
(* ZeroDivisionError when there are no items                               *)
get_batch_size(shape, frac, total_memory) ==
    IF shape[2] = 0 THEN Err("ZeroDivisionError")
    ELSE CeilDiv(shape[1],
            n_batches(shape[1], VMul(VDiv(VDiv(total_memory, Num(8)), Num(shape[2])), frac)))

(* LazyScoreExpression.batch_size *)
batch_size_of(S, total_memory) == get_batch_size(ShapeOf(S), DefaultFrac, total_memory)

(* LazyScoreExpression.__len__ *)
len(S) == ShapeOf(S)[1]

(* DataLoader(S, batch_size, collate_fn): the constructor refuses a batch  *)
(* size that is not a positive integer                                     *)
DataLoader(S, batch_size) ==
    IF IsErr(batch_size) THEN batch_size
    ELSE IF batch_size.n <= 0 THEN Err("ValueError")
    ELSE [dataset |-> S, batch_size |-> batch_size.n]

(* the positions of the batch that starts at row pos, 0-based *)
BatchIndices(n, batch_size, pos) ==
    [t \in 1..(IF pos + batch_size <= n THEN batch_size ELSE n - pos) |-> pos + t - 1]

(* one batch of the loader: every sample S[i], collated *)
FetchBatch(S, indices) ==
    LET samples == [t \in 1..Len(indices) |-> getitem(S, IntKey(indices[t]))]
    IN  IF AnyErr(samples) THEN FirstErr(samples) ELSE collate_fn(S, samples)

---------------------------------------------------------------------------
(* State *)

VARIABLES
    S,        \* score_op / DataLoader: the expression aggregated over
    op,       \* score_op: "max" or "min"
    total_memory, \* the memory of the device in bytes
    pc,       \* score_op: "start", "loop", "done" or "failed"
    loader,   \* the DataLoader, once built
    pos,      \* the first row the loader has not yet served
    out,      \* score_op: out, [set |-> FALSE] standing for None
    sizes,    \* the row counts of the batches served so far
    trail,    \* the objects built so far, the latest last
    hist,     \* the operations that built them
    slices,   \* the row slices taken of the latest object
    bsz       \* the batch size of the slicing in progress, 0 if none

vars == <<S, op, total_memory, pc, loader, pos, out, sizes, trail, hist, slices, bsz>>
aggVars == <<S, op, total_memory, pc, loader, pos, out, sizes>>
algVars == <<trail, hist, slices, bsz>>

None == [set |-> FALSE, v |-> Num(0)]
Some(v) == [set |-> TRUE, v |-> v]

AggIdle ==
    /\ S = Scalar(Num(0)) /\ op = "max" /\ total_memory = CpuMemory /\ pc = "idle"
    /\ loader = None /\ pos = 0 /\ out = None /\ sizes = <<>>
AlgIdle == trail = <<>> /\ hist = <<>> /\ slices = <<>> /\ bsz = 0

RowNames == <<"a", "b", "c", "d", "e", "f">>
ColNames == <<"x", "y", "z", "w">>
Logits == {-1, 0, 1}
(* device memories that give max_batch_size about 1, 2, 3, 5 and 7 rows of *)
(* one column, and the memory assumed without a device                     *)
Memories == {Num(80), Num(160), Num(240), Num(400), Num(560), CpuMemory}

(* the rank-one LowRankDataFrame with the given row logits, every column  *)
(* logit 1, labelled a, b, ... and x, y, ...                              *)
RankOne(rows, ncols, act) ==
    LowRankDataFrame(Mat(Len(rows), 1, [i \in 1..Len(rows) |-> <<Num(rows[i])>>]),
                     MatFill(ncols, 1, Num(1)),
                     SubSeq(RowNames, 1, Len(rows)), SubSeq(ColNames, 1, ncols),
                     act, "array", "array")

---------------------------------------------------------------------------
(* score_op(S, op): specification SpecAgg *)

AggBase ==
    UNION {{RankOne(rows, c, "exp") : rows \in [1..r -> Logits], c \in 1..AggMaxCols} : r \in 0..AggMaxRows}

AggInputs ==
    AggBase
    \cup {LowRankDataFrame_reindex(m, Labels(m.index \o <<"n">>, "array"), 0, NaN) : m \in AggBase}
    \cup {LowRankDataFrame_reindex(m, Labels(<<"n">> \o m.index, "array"), 0, Num(0)) : m \in AggBase}
    \cup {LowRankDataFrame_reindex(m, Labels(m.index \o <<"n">>, "list"), 0, Num(1)) : m \in AggBase}
    \cup {LazyScoreExpression_mul(m, Scalar(Num(2))) : m \in AggBase}
    \cup {LazyScoreExpression_clip(LazyScoreExpression_add(m, Dense(MatFill(m.ind_logits.r, m.col_logits.r, Num(1)))),
                                   Num(0), Num(3)) : m \in AggBase}

InitAgg ==
    /\ S \in AggInputs
    /\ op \in {"max", "min"}
    /\ total_memory \in {Num(80), Num(160), CpuMemory}
    /\ pc = "start" /\ loader = None /\ pos = 0 /\ out = None /\ sizes = <<>>
    /\ AlgIdle

(* out = None; DataLoader(S, S.batch_size, collate_fn=S.collate_fn) *)
ScoreOpStart ==
    /\ pc = "start"
    /\ LET dl == DataLoader(S, batch_size_of(S, total_memory))
       IN  IF IsErr(dl)
           THEN pc' = "failed" /\ loader' = dl
           ELSE pc' = "loop" /\ loader' = dl
    /\ UNCHANGED <<S, op, total_memory, pos, out, sizes>>
    /\ UNCHANGED algVars

(* one turn of the loop: val = batch.eval(device); new = val.op();        *)
(* out = new if out is None else builtins.op(out, new)                    *)
ScoreOpBatch ==
    /\ pc = "loop" /\ pos < len(S)
    /\ LET indices == BatchIndices(len(S), loader.batch_size, pos)
           batch == FetchBatch(S, indices)
           val == IF IsErr(batch) THEN batch ELSE eval(batch)
           new == NpReduce(op, val)
       IN  IF IsErr(new)
           THEN pc' = "failed" /\ UNCHANGED <<out, pos, sizes>>
           ELSE /\ out' = IF ~out.set THEN Some(new) ELSE Some(BuiltinsOp(op, out.v, new))
                /\ pos' = pos + Len(indices)
                /\ sizes' = Append(sizes, Len(indices))
                /\ pc' = "loop"
    /\ UNCHANGED <<S, op, total_memory, loader>>
    /\ UNCHANGED algVars

(* the loader is exhausted: return out *)
ScoreOpReturn ==
    /\ pc = "loop" /\ pos >= len(S)
    /\ pc' = "done"
    /\ UNCHANGED <<S, op, total_memory, loader, pos, out, sizes>>
    /\ UNCHANGED algVars

NextAgg == ScoreOpStart \/ ScoreOpBatch \/ ScoreOpReturn
SpecAgg == InitAgg /\ [][NextAgg]_vars

(* C1 as stated: for an expression with at least one row, score_op with   *)
(* max or min returns what one reduction of the whole evaluated matrix    *)
(* returns, whatever the batch size.                                       *)
C1_BatchedEqualsWhole ==
    (pc = "done" /\ len(S) >= 1) => (out.set /\ out.v = NpReduce(op, eval(S)))

(* C8: score_op over an expression with no rows, hence no batches, fails: *)
(* it never returns, and whenever it returns at least one batch was       *)
(* folded into out.                                                       *)
C8_NoBatchFails ==
    /\ (len(S) = 0 /\ pc # "start") => (pc = "failed" /\ ~out.set)
    /\ pc = "done" => (out.set /\ sizes # <<>>)

C8_Witness == pc = "failed" /\ len(S) = 0 /\ sizes = <<>> /\ IsErr(loader)

---------------------------------------------------------------------------
(* The batches DataLoader(S, S.batch_size) cuts the rows of S into:        *)
(* specification SpecBatch.  S is known by its shape alone.                *)

InitBatch ==
    /\ S \in {Big("lowrank", <<r, c>>, <<"I">>, <<"J">>) :
                r \in 0..MaxBatchRows, c \in 0..MaxBatchCols}
    /\ total_memory \in Memories
    /\ op = "max" /\ pc = "start" /\ loader = None /\ pos = 0 /\ out = None /\ sizes = <<>>
    /\ AlgIdle

(* the loader's batch sampler yields the next batch_size positions, the   *)
(* last batch taking what rows are left                                    *)
SamplerNext ==
    /\ pc = "loop" /\ pos < len(S)
    /\ LET indices == BatchIndices(len(S), loader.batch_size, pos)
       IN  /\ pos' = pos + Len(indices)
           /\ sizes' = Append(sizes, Len(indices))
    /\ UNCHANGED <<S, op, total_memory, pc, loader, out>>
    /\ UNCHANGED algVars

SamplerStop ==
    /\ pc = "loop" /\ pos >= len(S)
    /\ pc' = "done"
    /\ UNCHANGED <<S, op, total_memory, loader, pos, out, sizes>>
    /\ UNCHANGED algVars

NextBatch == ScoreOpStart \/ SamplerNext \/ SamplerStop
SpecBatch == InitBatch /\ [][NextBatch]_vars

(* C10 as stated: with b = get_batch_size, the rows are cut into batches  *)
(* of b rows whose last batch is at most one row smaller than the others. *)
C10_NearEqualBatches ==
    (pc = "done" /\ sizes # <<>>) =>
        \A i \in 1..Len(sizes) : sizes[Len(sizes)] >= sizes[i] - 1

---------------------------------------------------------------------------
(* Building expressions: the objects built so far are kept in trail, the   *)
(* operation that built trail[n + 1] from trail[n] in hist[n].             *)

cur == trail[Len(trail)]
last == hist[Len(hist)]

Step(name, a, b, axis, labels, full) ==
    [name |-> name, a |-> a, b |-> b, axis |-> axis, labels |-> labels, full |-> full]

Built(x, step) ==
    /\ trail' = Append(trail, x)
    /\ hist' = Append(hist, step)
    /\ UNCHANGED <<slices, bsz>>
    /\ UNCHANGED aggVars

Ready(maxops) ==
    /\ trail # <<>> /\ ~IsErr(cur) /\ HasLabels(cur)
    /\ slices = <<>> /\ Len(hist) < maxops

(* the low-rank matrices the runs start from: logits -1, 0, 1, -1, ...    *)
BaseRows(r) == [i \in 1..r |-> ((i + 1) % 3) - 1]
Base(minrows) ==
    {RankOne(BaseRows(r), c, act) : r \in minrows..MaxRows, c \in 1..MaxCols, act \in {"exp", "sigmoid"}}

InitAlg(minrows) ==
    /\ trail \in {<<m>> : m \in Base(minrows)}
    /\ hist = <<>> /\ slices = <<>> /\ bsz = 0
    /\ AggIdle

(* the operands offered to an expression of the given shape *)
DenseOf(shape) == Dense(Mat(shape[1], shape[2], [i \in 1..shape[1] |-> [j \in 1..shape[2] |-> Num(i - j)]]))
SparseOf(shape) ==
    Sparse(shape[1], shape[2], <<<<1, 1, Num(3)>>, <<shape[1], shape[2], Num(-1)>>, <<1, 1, Num(3)>>>>)
LowRankOf(shape) == RankOne([i \in 1..shape[1] |-> 2 - i], shape[2], "sigmoid")
Compatible(shape) == {Scalar(Num(2)), DenseOf(shape), SparseOf(shape), LowRankOf(shape)}
Incompatible(shape) == {DenseOf(<<shape[1] + 1, shape[2]>>)}

(* add, multiply and clip build expressions nested ExprMaxOps - 2 deep,  *)
(* which leaves two steps to transpose the deepest of them twice          *)
ExprBuildOps == ExprMaxOps - 2

(* expr + other, other + expr *)
Add ==
    /\ Ready(ExprBuildOps)
    /\ \/ \E other \in Compatible(ShapeOf(cur)) \cup Incompatible(ShapeOf(cur)) :
            Built(binary_add(cur, other), Step("add", cur, other, 0, <<>>, FALSE))
       \/ \E other \in {Scalar(Num(2))} :
            Built(binary_add(other, cur), Step("add", other, cur, 0, <<>>, FALSE))

(* expr * other, other * expr *)
Mul ==
    /\ Ready(ExprBuildOps)
    /\ \/ \E other \in Compatible(ShapeOf(cur)) :
            Built(binary_mul(cur, other), Step("mul", cur, other, 0, <<>>, FALSE))
       \/ \E other \in {Scalar(Num(2))} :
            Built(binary_mul(other, cur), Step("mul", other, cur, 0, <<>>, FALSE))

(* expr.clip(0, 1) *)
Clip ==
    /\ Ready(ExprBuildOps)
    /\ Built(LazyScoreExpression_clip(cur, Num(0), Num(1)),
             Step("clip", cur, Scalar(Num(0)), 0, <<>>, FALSE))

(* expr.T *)
TransposeOf(maxops) ==
    /\ Ready(maxops)
    /\ Built(AttrT(cur), Step("T", cur, Scalar(Num(0)), 0, <<>>, FALSE))

Transpose == TransposeOf(ExprMaxOps)

NextExpr == Add \/ Mul \/ Clip \/ Transpose
SpecExpr == InitAlg(1) /\ [][NextExpr]_vars

(* the entry (i, j) of an evaluated operand: a scalar stands for every entry *)
At(X, i, j) == IF IsMat(X) THEN X.d[i][j] ELSE X

(* E is the element-wise sum (product) of the evaluated operands A and B *)
ElementWise(E, name, A, B, shape) ==
    /\ ~IsErr(E) /\ IsMat(E)
    /\ E.r = shape[1] /\ E.c = shape[2]
    /\ \A i \in 1..shape[1] : \A j \in 1..shape[2] :
          E.d[i][j] = IF name = "add" THEN VAdd(At(A, i, j), At(B, i, j))
                      ELSE VMul(At(A, i, j), At(B, i, j))

SameShapeOrScalar(a, b) == isscalar(a) \/ isscalar(b) \/ ShapeOf(a) = ShapeOf(b)

BinaryAgrees ==
    /\ ~IsErr(cur)
    /\ ElementWise(eval(cur), last.name, _auto_eval(last.a), _auto_eval(last.b),
                   IF isscalar(last.a) THEN ShapeOf(last.b) ELSE ShapeOf(last.a))

(* C2 as stated: for every shape-compatible pair of operands, in either   *)
(* order, a + b and a * b evaluate to the element-wise sum and product of *)
(* the evaluated operands.                                                 *)
C2_AnyOrder ==
    (hist # <<>> /\ last.name \in {"add", "mul"} /\ SameShapeOrScalar(last.a, last.b))
        => BinaryAgrees

(* C2, amended: when the left operand is a Lazy Score Expression (a       *)
(* low-rank matrix or a composed expression) and the right operand is a   *)
(* scalar, a dense, a sparse or a low-rank operand of the same shape, the *)
(* sum and the product evaluate to the element-wise sum and product; when *)
(* the left operand is a scalar the operation fails with a type error.    *)
C2_ExpressionOnTheLeft ==
    /\ (hist # <<>> /\ last.name \in {"add", "mul"} /\ HasLabels(last.a)
            /\ SameShapeOrScalar(last.a, last.b))
            => BinaryAgrees
    /\ (hist # <<>> /\ last.name \in {"add", "mul"} /\ isscalar(last.a))
            => cur = Err("TypeError")

C2_Witness ==
    /\ hist # <<>> /\ last.name = "mul" /\ last.a.kind = "expr" /\ last.b.kind = "sparse"
    /\ ShapeOf(last.a) = <<2, 2>> /\ ~IsErr(cur)

(* C6: transposing twice gives back the matrix: a low-rank matrix with    *)
(* the same factors, labels and activation; a composed expression with    *)
(* the same operator, the same shape and the same evaluated values.       *)
C6_TransposeTwice ==
    (Len(hist) >= 2 /\ last.name = "T" /\ hist[Len(hist) - 1].name = "T") =>
        LET x == trail[Len(trail) - 2]
        IN  /\ ~IsErr(cur)
            /\ cur.kind = x.kind
            /\ IF x.kind = "lowrank"
               THEN /\ cur.ind_logits = x.ind_logits /\ cur.col_logits = x.col_logits
                    /\ cur.index = x.index /\ cur.columns = x.columns /\ cur.act = x.act
               ELSE /\ cur.op = x.op /\ cur.shape = x.shape
                    /\ eval(cur) = eval(x)

C6_Witness ==
    /\ Len(hist) >= 2 /\ last.name = "T" /\ hist[Len(hist) - 1].name = "T"
    /\ LET x == trail[Len(trail) - 2]
       IN  /\ x.kind = "expr" /\ x.shape = <<1, 2>> /\ x.op.name = "mul"
           /\ x.children[2].kind = "scalar" /\ x.children[1].kind = "expr"
           /\ x.children[1].op.name = "add" /\ x.children[1].children[2].kind = "dense"
    /\ ~IsErr(cur)

---------------------------------------------------------------------------
(* Low-rank matrices: reindex, transpose, row slices and their collation: *)
(* specification SpecLowRank                                               *)

FillValues == {NaN, Num(0), Num(1), Num(-1)}

(* the label sequences offered to reindex: the old labels and a new one,  *)
(* and the new one followed by the first old label                        *)
NewLabels(old, fresh) == {Append(old, fresh), <<fresh>> \o SubSeq(old, 1, 1)}

Reindex ==
    /\ Ready(MaxOps) /\ cur.kind = "lowrank"
    /\ \E axis \in {0, 1} : \E fill_value \in FillValues : \E t \in {"list", "array"} :
       \E index \in NewLabels(IF axis = 0 THEN cur.index ELSE cur.columns,
                              IF axis = 0 THEN "n" ELSE "m") :
          Built(LowRankDataFrame_reindex(cur, Labels(index, t), axis, fill_value),
                Step("reindex", cur, Scalar(fill_value), axis, index, FALSE))

RECURSIVE Covered(_)
Covered(ss) == IF ss = <<>> THEN 0 ELSE len(Head(ss)) + Covered(Tail(ss))

(* the next slice of consecutive rows: x[i] for a batch of one row, else  *)
(* x[[i, i + 1, ...]]                                                     *)
RowSliceOf(maxops) ==
    /\ trail # <<>> /\ ~IsErr(cur) /\ HasLabels(cur) /\ Len(hist) < maxops
    /\ ~AnyErr(slices)
    /\ Covered(slices) < len(cur)
    /\ \E b \in 1..(MaxRows + 1) :
          /\ IF slices = <<>> THEN bsz' = b ELSE (b = bsz /\ bsz' = bsz)
          /\ LET indices == BatchIndices(len(cur), b, Covered(slices))
                 key == IF b = 1 THEN IntKey(indices[1]) ELSE SeqKey(indices)
             IN  slices' = Append(slices, getitem(cur, key))
    /\ UNCHANGED <<trail, hist>>
    /\ UNCHANGED aggVars

(* collate_fn of the slices taken so far *)
CollateOf(maxops) ==
    /\ trail # <<>> /\ slices # <<>> /\ ~AnyErr(slices)
    /\ trail' = Append(trail, collate_fn(cur, slices))
    /\ hist' = Append(hist, Step("collate", cur, Scalar(Num(bsz)), Len(slices), <<>>,
                                 Covered(slices) = len(cur)))
    /\ slices' = <<>> /\ bsz' = 0
    /\ UNCHANGED aggVars

RowSlice == RowSliceOf(MaxOps)
Collate == CollateOf(MaxOps)
TransposeLowRank == TransposeOf(MaxOps)

NextLowRank == Reindex \/ TransposeLowRank \/ RowSlice \/ Collate
SpecLowRank == InitAlg(1) /\ [][NextLowRank]_vars

(* the rows of a reindexed matrix: a row whose label the original has     *)
(* evaluates to the original's row, any other row to fill_value in every  *)
(* column                                                                  *)
ReindexedRows(old, new, index, fill_value) ==
    /\ ~IsErr(new) /\ new.kind = "lowrank"
    /\ new.index = index /\ len(new) = Len(index)
    /\ LET A == eval(old)
           B == eval(new)
       IN  \A t \in 1..Len(index) :
              IF \E i \in 1..Len(old.index) : old.index[i] = index[t]
              THEN B.d[t] = A.d[Position(old.index, index[t]) + 1]
              ELSE \A j \in 1..B.c : B.d[t][j] = fill_value

(* C3 as stated: reindex on axis 0 of a low-rank matrix with activation   *)
(* exp gives one row per new label, in order; a row whose label the       *)
(* original has keeps the original's values and every other row is        *)
(* exactly fill_value in every column.                                     *)
C3_ReindexExp ==
    (hist # <<>> /\ last.name = "reindex" /\ last.axis = 0 /\ last.a.act = "exp")
        => ReindexedRows(last.a, cur, last.labels, last.b.v)

(* C7 as stated: the same for a low-rank matrix with activation sigmoid:  *)
(* the rows of new labels evaluate to exactly fill_value.                  *)
C7_ReindexSigmoid ==
    (hist # <<>> /\ last.name = "reindex" /\ last.axis = 0 /\ last.a.act = "sigmoid")
        => ReindexedRows(last.a, cur, last.labels, last.b.v)

(* C5 as stated: every low-rank matrix with at least one row can be cut   *)
(* into consecutive row slices, whatever the batch size, and once the     *)
(* slices cover every row they collate to a low-rank matrix with the      *)
(* original's row_factors, row_labels, col_factors, col_labels and        *)
(* activation, and so with the original's evaluation.                      *)
C5_SliceCollate ==
    /\ (trail # <<>> /\ ~IsErr(cur) /\ cur.kind = "lowrank") => ~AnyErr(slices)
    /\ (hist # <<>> /\ last.name = "collate" /\ last.full /\ last.a.kind = "lowrank") =>
            /\ ~IsErr(cur) /\ cur.kind = "lowrank"
            /\ cur.ind_logits = last.a.ind_logits /\ cur.index = last.a.index
            /\ cur.col_logits = last.a.col_logits /\ cur.columns = last.a.columns
            /\ cur.act = last.a.act
            /\ eval(cur) = eval(last.a)

---------------------------------------------------------------------------
(* Shapes: matrices known by their shape alone, small and large, under    *)
(* add, multiply, clip, transpose, direct construction, row slices and    *)
(* collation: specification SpecShape                                      *)

ShapeRows == {1, 2, 100000, 200001}
ShapeCols == {1, 2}

InitShape ==
    /\ trail \in {<<Big("lowrank", <<r, c>>, <<"I">>, <<"J">>)>> : r \in ShapeRows, c \in ShapeCols}
    /\ hist = <<>> /\ slices = <<>> /\ bsz = 0
    /\ AggIdle

(* the operands offered to an expression of the given shape: a scalar,    *)
(* and matrices with the same or nearly the same row and column counts    *)
Near(n) == {m \in (n - 1)..(n + 2) : m >= 0}
Offered(shape) ==
    {Scalar(Num(2)), Big("sparse", shape, <<>>, <<>>), Big("lowrank", shape, <<"K">>, <<"L">>)}
    \cup {Big("dense", <<r, c>>, <<>>, <<>>) : r \in Near(shape[1]), c \in {shape[2], shape[2] + 1}}

AddShape ==
    /\ Ready(MaxOps)
    /\ \E other \in Offered(ShapeOf(cur)) :
          Built(LazyScoreExpression_add(cur, other), Step("add", cur, other, 0, <<>>, FALSE))

MulShape ==
    /\ Ready(MaxOps)
    /\ \E other \in Offered(ShapeOf(cur)) :
          Built(LazyScoreExpression_mul(cur, other), Step("mul", cur, other, 0, <<>>, FALSE))

ClipShape ==
    /\ Ready(MaxOps)
    /\ Built(LazyScoreExpression_clip(cur, Num(0), Num(1)),
             Step("clip", cur, Scalar(Num(0)), 0, <<>>, FALSE))

(* LazyScoreExpression(op, [expr, other]) called directly *)
Construct ==
    /\ Ready(MaxOps)
    /\ \E other \in Offered(ShapeOf(cur)) : \E f \in {operator_add, operator_mul} :
          Built(LazyScoreExpression(f, <<cur, other>>),
                Step("construct", cur, other, 0, <<>>, FALSE))

TransposeShape == TransposeOf(MaxOps)
RowSliceShape == ~IsErr(cur) /\ len(cur) <= MaxRows + 1 /\ RowSliceOf(MaxOps)
CollateShape == CollateOf(MaxOps)

NextShape ==
    AddShape \/ MulShape \/ ClipShape \/ Construct \/ TransposeShape \/ RowSliceShape \/ CollateShape
SpecShape == InitShape /\ [][NextShape]_vars

(* C4 as stated: add and multiply fail with a shape mismatch whenever the *)
(* other operand is no scalar and its shape differs from the receiver's   *)
(* in any dimension, however large the shapes; they return the binary     *)
(* node when the other operand is a scalar or has the same shape.         *)
C4_ShapeCheck ==
    (hist # <<>> /\ last.name \in {"add", "mul"}) =>
        IF isscalar(last.b) \/ ShapeOf(last.b) = ShapeOf(last.a)
        THEN /\ ~IsErr(cur) /\ cur.kind = "expr"
             /\ cur.op.name = last.name /\ cur.children = <<last.a, last.b>>
        ELSE cur = Err("AssertionError")

RECURSIVE NodeShapes(_)
NodeShapes(n) ==
    n.kind = "expr" =>
        /\ n.shape = ShapeOf(n.children[1])
        /\ n.index = n.children[1].index /\ n.columns = n.children[1].columns
        /\ \A i \in 1..Len(n.children) :
              \/ isscalar(n.children[i])
              \/ ShapeOf(n.children[i]) = ShapeOf(n.children[1]) /\ NodeShapes(n.children[i])

(* C9 as stated: every node, however it was built, has the shape and the  *)
(* labels of its first child, and every child that is no scalar has the   *)
(* shape of the first; a construction that would break this fails.        *)
C9_NodeShapes ==
    /\ \A n \in 1..Len(trail) : IsErr(trail[n]) \/ NodeShapes(trail[n])
    /\ \A n \in 1..Len(slices) : IsErr(slices[n]) \/ NodeShapes(slices[n])

====
